---- MODULE Spec2Model ----
(***************************************************************************)
(* A model of the hash-linked ledger of alagraf/blockchain_project:        *)
(*   src/block.rs            Block, its hash and its JSON form             *)
(*   src/src/blockchain.rs   Blockchain: new, from_blocks, add_block,      *)
(*                           is_valid                                      *)
(*   src/src/network.rs      NetworkMessage, broadcast_message,            *)
(*                           handle_mdns, handle_event                     *)
(*   src/main.rs             the node: start-up, then the select! loop     *)
(*                                                                         *)
(* Strings are sequences of characters; a character is a number (the       *)
(* digits 0..9 stand for themselves).  SHA-256 is modelled as a            *)
(* collision-free digest: the digest of a byte string is that string       *)
(* behind a marker that no input starts with.                              *)
(***************************************************************************)
EXTENDS Integers, Sequences, FiniteSets

\* ---------------------------------------------------------------- bounds

\* Readings of the system clock (SystemTime::now() in milliseconds) are
\* drawn from 1..MaxTime.
MaxTime == 2

\* A chain is not grown beyond MaxLen blocks.
MaxLen == 3

\* A sequence handed to from_blocks has at most MaxData blocks.
MaxData == 2

\* The blocks two nodes hold together (both genesis blocks included).
MaxNetBlocks == 3

\* "0".repeat(64): the width of the genesis block's previous hash.
SentinelWidth == 64

Times == 1..MaxTime

Nodes == {"n1", "n2"}

\* ------------------------------------------------------------ src/block.rs

RECURSIVE Repeat(_, _)
\* str::repeat
Repeat(c, n) == IF n = 0 THEN <<>> ELSE <<c>> \o Repeat(c, n - 1)

RECURSIVE to_string(_)
\* u128::to_string: the decimal digits, most significant first
to_string(n) ==
    IF n < 10 THEN <<n>> ELSE to_string(n \div 10) \o <<n % 10>>

\* The previous hash of a genesis block: 64 characters '0'.
Sentinel == Repeat(0, SentinelWidth)

\* Sha256 followed by format!("{:x}"): a collision-free digest of the bytes.
Sha256(bytes) == <<-1>> \o bytes

\* A hash that leaves the timestamp out.
calculate_hash_prev_only(timestamp, prev_block_hash) ==
    Sha256(prev_block_hash)

\* Block::calculate_hash: the digest of the timestamp's decimal string
\* followed by the previous hash; the height is not hashed.
calculate_hash(timestamp, prev_block_hash) ==
    Sha256(to_string(timestamp) \o prev_block_hash)

\* struct Block
Block(timestamp, prev_block_hash, hash, height) ==
    [timestamp |-> timestamp, prev_block_hash |-> prev_block_hash,
     hash |-> hash, height |-> height]

\* A constructor that lets the height into the hash.
new_block_hashes_height(now, prev_block_hash, height) ==
    Block(now, prev_block_hash,
          Sha256(to_string(now) \o prev_block_hash \o to_string(height)),
          height)

\* Block::new_block, with `now` the reading of the clock
new_block(now, prev_block_hash, height) ==
    Block(now, prev_block_hash, calculate_hash(now, prev_block_hash), height)

\* Block::genesis_block, with `now` the reading of the clock
genesis_block(now) ==
    Block(now, Sentinel, calculate_hash(now, Sentinel), 0)

\* Block::serialize / serde_json::to_string(&block): the JSON object, as the
\* tuple of its four members in declaration order.
serialize(block) ==
    <<block.timestamp, block.prev_block_hash, block.hash, block.height>>

\* A parser that takes a negative number for an unsigned member.
WellFormedBlock_signed(json) == Len(json) = 4

\* What serde_json::from_str::<Block> accepts: all four members present,
\* the two numbers unsigned.
WellFormedBlock(json) ==
    /\ Len(json) = 4
    /\ json[1] >= 0
    /\ json[4] >= 0

\* A parser that takes the two hashes in the wrong order.
deserialize_swapped(json) == Block(json[1], json[3], json[2], json[4])

\* serde_json::from_str::<Block> on accepted text
deserialize(json) == Block(json[1], json[2], json[3], json[4])

\* ------------------------------------------------- src/src/blockchain.rs

Last(s) == s[Len(s)]

\* A constructor that seeds no genesis block.
new_empty(now) == <<>>

\* Blockchain::new, with `now` the reading of the clock
new(now) == <<genesis_block(now)>>

\* Blockchain::get_last_block: Some(tip) as <<tip>>, None as <<>>
get_last_block(blocks) == IF blocks = <<>> THEN <<>> ELSE <<Last(blocks)>>

\* add_block with the `return false` of the mismatch branch lost: the
\* rejection is reported and the block pushed all the same.
add_block_falls_through(blocks, block) ==
    IF get_last_block(blocks) # <<>>
    THEN [ret |-> block.prev_block_hash = Last(blocks).hash,
          blocks |-> Append(blocks, block)]
    ELSE [ret |-> FALSE, blocks |-> blocks]

\* add_block comparing the previous hash with the tip's previous hash
\* instead of the tip's hash.
add_block_wrong_field(blocks, block) ==
    IF get_last_block(blocks) # <<>>
    THEN IF block.prev_block_hash # Last(blocks).prev_block_hash
         THEN [ret |-> FALSE, blocks |-> blocks]
         ELSE [ret |-> TRUE, blocks |-> Append(blocks, block)]
    ELSE [ret |-> FALSE, blocks |-> blocks]

\* An add_block that puts the accepted block in the place of the tip.
add_block_replaces_tip(blocks, block) ==
    IF get_last_block(blocks) # <<>>
    THEN IF block.prev_block_hash # Last(blocks).hash
         THEN [ret |-> FALSE, blocks |-> blocks]
         ELSE [ret |-> TRUE,
               blocks |-> Append(SubSeq(blocks, 1, Len(blocks) - 1), block)]
    ELSE [ret |-> FALSE, blocks |-> blocks]

\* Blockchain::add_block: the return value and the blocks afterwards
add_block(blocks, block) ==
    IF get_last_block(blocks) # <<>>
    THEN IF block.prev_block_hash # Last(blocks).hash
         THEN [ret |-> FALSE, blocks |-> blocks]
         ELSE [ret |-> TRUE, blocks |-> Append(blocks, block)]
    ELSE [ret |-> FALSE, blocks |-> blocks]

\* Blockchain::is_valid: the loop runs over the indices 1..len-1 (here
\* 2..Len, sequences being 1-based) and checks the link to the previous
\* block and the stored hash of each.
is_valid(blocks) ==
    \A i \in 2..Len(blocks) :
        /\ blocks[i].prev_block_hash = blocks[i - 1].hash
        /\ blocks[i].hash =
               calculate_hash(blocks[i].timestamp, blocks[i].prev_block_hash)

\* from_blocks without the validity check.
from_blocks_unchecked(data) == [panicked |-> FALSE, blocks |-> data]

\* Blockchain::from_blocks: the instance, or the panic
from_blocks(data) ==
    IF ~is_valid(data)
    THEN [panicked |-> TRUE, blocks |-> <<>>]
    ELSE [panicked |-> FALSE, blocks |-> data]

\* --------------------------------------------------- src/src/network.rs

\* enum NetworkMessage
NewBlock(payload) == [type |-> "NewBlock", payload |-> payload, list |-> <<>>]

ChainRequest == [type |-> "ChainRequest", payload |-> <<>>, list |-> <<>>]

ChainResponse(list) == [type |-> "ChainResponse", payload |-> <<>>, list |-> list]

\* serde_json::to_vec(&msg): the variant's name and what it carries, a
\* list of zero or more JSON strings.
to_vec(msg) ==
    [tag |-> msg.type,
     body |-> IF msg.type = "NewBlock" THEN <<msg.payload>> ELSE msg.list]

\* Whether serde_json::from_slice::<NetworkMessage> returns Ok.
Decodes(data) ==
    \/ data.tag = "NewBlock" /\ Len(data.body) = 1
    \/ data.tag = "ChainRequest" /\ data.body = <<>>
    \/ data.tag = "ChainResponse"

\* serde_json::from_slice::<NetworkMessage> on bytes that decode
from_slice(data) ==
    IF data.tag = "NewBlock" THEN NewBlock(data.body[1])
    ELSE IF data.tag = "ChainRequest" THEN ChainRequest
    ELSE ChainResponse(data.body)

\* Bytes that are no NetworkMessage.
Garbage == [tag |-> "garbage", body |-> <<>>]

\* SwarmEvent: a gossipsub message carrying bytes, or any other event
\* (mDNS discovery, connection events).
GossipEvent(data) == [kind |-> "gossip", data |-> data]

OtherEvent == [kind |-> "other", data |-> Garbage]

\* broadcast_message: nothing is published while mDNS knows no peer
\* (connected = FALSE); otherwise the bytes are handed to gossipsub.publish,
\* which returns Ok (ok = TRUE) or an error that is only reported.
\*   handed: the bytes given to publish; sent: the bytes on their way.
broadcast_message(msg, connected, ok) ==
    IF ~connected
    THEN [pub |-> "no_peers", handed |-> <<>>, sent |-> {}]
    ELSE IF ok
         THEN [pub |-> "ok", handed |-> <<to_vec(msg)>>, sent |-> {to_vec(msg)}]
         ELSE [pub |-> "err", handed |-> <<to_vec(msg)>>, sent |-> {}]

\* ----------------------------------------------------------- the node

VARIABLES
    chain,    \* chain[n]: local_blockchain.blocks of node n
    pc,       \* pc[n]: where main is: "off", "discovery", "loop",
              \*        "announced" (between the broadcast and the add_block
              \*        of an Add Block command), "panicked"
    pending,  \* pending[n]: new_block of the Add Block command under way
    inbox,    \* inbox[n]: published bytes on their way to node n
    last,     \* what the latest step did (a record, see Step)
    lib       \* the caller of the Blockchain API (see below)

vars == <<chain, pc, pending, inbox, last, lib>>

Running == {"discovery", "loop", "announced"}

\* The record of a step: the node, the operation ("new", "handle_mdns",
\* "startup", "announce", "commit", "command", "new_block",
\* "chain_request", "chain_response", "ignored"), the kind of event it
\* took from the swarm ("none" if it took none), the block given to
\* add_block (<<>> if it was not called) and what it returned, the bytes
\* handed to gossipsub.publish and how the publication ended ("none",
\* "no_peers", "ok", "err").
Step(n, op, got, arg, ret, handed, pub) ==
    [node |-> n, op |-> op, got |-> got, arg |-> arg, ret |-> ret,
     handed |-> handed, pub |-> pub]

\* The gossipsub fabric: node n has taken `consumed` from its inbox and
\* has published `sent`, which goes to every other running node.
Transport(n, consumed, sent) ==
    [m \in Nodes |->
        IF m = n THEN inbox[m] \ consumed
        ELSE IF pc[m] \in Running THEN inbox[m] \cup sent
        ELSE inbox[m]]

\* What an event is: no gossipsub message ("other"), bytes that are no
\* NetworkMessage ("undecodable"), or the variant they decode to.
EventKind(event) ==
    IF event.kind # "gossip" THEN "other"
    ELSE IF ~Decodes(event.data) THEN "undecodable"
    ELSE from_slice(event.data).type

\* The bytes an event takes out of the inbox.
Consumed(event) == IF event.kind = "gossip" THEN {event.data} ELSE {}

\* The caller of the Blockchain API is idle while the node runs.
LibIdle == [st |-> "idle", data |-> <<>>, blocks |-> <<>>, valid |-> FALSE,
            touched |-> 0, saved |-> <<>>]

\* main up to line 52: the swarm is up, the chain holds a fresh genesis
\* block, discovery is about to start.  Only the node n1 is started.
Init ==
    /\ \E now \in Times :
           chain = [n \in Nodes |-> IF n = "n1" THEN new(now) ELSE <<>>]
    /\ pc = [n \in Nodes |-> IF n = "n1" THEN "discovery" ELSE "off"]
    /\ pending = [n \in Nodes |-> <<>>]
    /\ inbox = [n \in Nodes |-> {}]
    /\ last = Step("n1", "new", "none", <<>>, FALSE, <<>>, "none")
    /\ lib = LibIdle

\* handle_mdns inside timeout(): every swarm event that arrives during the
\* discovery window is taken from the swarm; only mDNS discoveries are
\* printed, a gossipsub message is dropped.
HandleMdns(n, event) ==
    /\ pc[n] = "discovery"
    /\ inbox' = Transport(n, Consumed(event), {})
    /\ last' = Step(n, "handle_mdns", EventKind(event), <<>>, FALSE, <<>>, "none")
    /\ UNCHANGED <<chain, pc, pending, lib>>

\* A start-up that takes the expiry of the window without a discovered
\* peer for an error and stops.
DiscoveryTimeout_stops(n, connected, ok) ==
    /\ pc[n] = "discovery"
    /\ LET b == broadcast_message(ChainRequest, connected, ok) IN
           /\ inbox' = Transport(n, {}, b.sent)
           /\ last' = Step(n, "startup", "none", <<>>, FALSE, b.handed, b.pub)
    /\ pc' = [pc EXCEPT ![n] = IF connected THEN "loop" ELSE "panicked"]
    /\ UNCHANGED <<chain, pending, lib>>

\* main lines 54-62: the window ends by the timeout (handle_mdns never
\* returns), then the ChainRequest is broadcast and the loop is entered.
DiscoveryTimeout(n, connected, ok) ==
    /\ pc[n] = "discovery"
    /\ LET b == broadcast_message(ChainRequest, connected, ok) IN
           /\ inbox' = Transport(n, {}, b.sent)
           /\ last' = Step(n, "startup", "none", <<>>, FALSE, b.handed, b.pub)
    /\ pc' = [pc EXCEPT ![n] = "loop"]
    /\ UNCHANGED <<chain, pending, lib>>

\* main lines 77-92, "Add Block <data>" with data not empty: the tip is
\* read (unwrap panics on an empty chain), the new block is built on it
\* and announced.
AddBlockAnnounce(n, now, connected, ok) ==
    /\ pc[n] = "loop"
    /\ Len(chain[n]) < MaxLen
    /\ IF get_last_block(chain[n]) = <<>>
       THEN /\ pc' = [pc EXCEPT ![n] = "panicked"]
            /\ last' = Step(n, "announce", "none", <<>>, FALSE, <<>>, "none")
            /\ UNCHANGED <<pending, inbox>>
       ELSE LET prev_block == Last(chain[n])
                block == new_block(now, prev_block.hash, prev_block.height + 1)
                b == broadcast_message(NewBlock(serialize(block)), connected, ok)
            IN  /\ pending' = [pending EXCEPT ![n] = <<block>>]
                /\ inbox' = Transport(n, {}, b.sent)
                /\ last' = Step(n, "announce", "none", <<>>, FALSE, b.handed, b.pub)
                /\ pc' = [pc EXCEPT ![n] = "announced"]
    /\ UNCHANGED <<chain, lib>>

\* main lines 94-96: the announced block is added to the local chain.
AddBlockCommit(n) ==
    /\ pc[n] = "announced"
    /\ LET block == pending[n][1]
           r == add_block(chain[n], block)
       IN  /\ chain' = [chain EXCEPT ![n] = r.blocks]
           /\ last' = Step(n, "commit", "none", <<block>>, r.ret, <<>>, "none")
    /\ pending' = [pending EXCEPT ![n] = <<>>]
    /\ pc' = [pc EXCEPT ![n] = "loop"]
    /\ UNCHANGED <<inbox, lib>>

\* main lines 79, 101-118: "Add Block" without data, "List Peers",
\* "List Blockchain" and unknown commands change nothing.
OtherCommand(n) ==
    /\ pc[n] = "loop"
    /\ last' = Step(n, "command", "none", <<>>, FALSE, <<>>, "none")
    /\ UNCHANGED <<chain, pc, pending, inbox, lib>>

\* A handler that also runs between the broadcast and the add_block of an
\* Add Block command.
HandleNewBlock_any_time(n, event) ==
    /\ pc[n] \in {"loop", "announced"}
    /\ Len(chain[n]) < MaxLen
    /\ event.kind = "gossip"
    /\ Decodes(event.data)
    /\ LET decoded == from_slice(event.data) IN
       /\ decoded.type = "NewBlock"
       /\ WellFormedBlock(decoded.payload)
       /\ LET block == deserialize(decoded.payload)
              r == add_block(chain[n], block)
          IN  /\ chain' = [chain EXCEPT ![n] = r.blocks]
              /\ last' = Step(n, "new_block", EventKind(event), <<block>>,
                              r.ret, <<>>, "none")
    /\ inbox' = Transport(n, Consumed(event), {})
    /\ UNCHANGED <<pc, pending, lib>>

\* handle_event, NetworkMessage::NewBlock: the payload is parsed (a parse
\* error is reported and the message dropped) and given to add_block.
HandleNewBlock(n, event) ==
    /\ pc[n] = "loop"
    /\ Len(chain[n]) < MaxLen
    /\ event.kind = "gossip"
    /\ Decodes(event.data)
    /\ LET decoded == from_slice(event.data) IN
       /\ decoded.type = "NewBlock"
       /\ IF ~WellFormedBlock(decoded.payload)
          THEN /\ last' = Step(n, "new_block", EventKind(event), <<>>, FALSE, <<>>, "none")
               /\ UNCHANGED chain
          ELSE LET block == deserialize(decoded.payload)
                   r == add_block(chain[n], block)
               IN  /\ chain' = [chain EXCEPT ![n] = r.blocks]
                   /\ last' = Step(n, "new_block", EventKind(event), <<block>>, r.ret, <<>>,
                                   "none")
    /\ inbox' = Transport(n, Consumed(event), {})
    /\ UNCHANGED <<pc, pending, lib>>

\* A reply that carries the tip only.
serialized_blocks_tip_only(blocks) ==
    IF blocks = <<>> THEN <<>> ELSE <<serialize(Last(blocks))>>

\* handle_event lines 238-241: every block of the chain, serialized, in
\* the order of the chain.
serialized_blocks(blocks) == [i \in DOMAIN blocks |-> serialize(blocks[i])]

\* handle_event, NetworkMessage::ChainRequest: every local block is
\* serialized and the list published; the result of publish is unwrapped,
\* so an error panics.
HandleChainRequest(n, event, ok) ==
    /\ pc[n] = "loop"
    /\ event.kind = "gossip"
    /\ Decodes(event.data)
    /\ from_slice(event.data).type = "ChainRequest"
    /\ LET data == to_vec(ChainResponse(serialized_blocks(chain[n])))
       IN  IF ok
           THEN /\ inbox' = Transport(n, Consumed(event), {data})
                /\ last' = Step(n, "chain_request", EventKind(event), <<>>, FALSE, <<data>>, "ok")
                /\ UNCHANGED pc
           ELSE /\ inbox' = Transport(n, Consumed(event), {})
                /\ last' = Step(n, "chain_request", EventKind(event), <<>>, FALSE, <<data>>, "err")
                /\ pc' = [pc EXCEPT ![n] = "panicked"]
    /\ UNCHANGED <<chain, pending, lib>>

\* A handler that takes the chain of a ChainResponse when it is longer
\* than the local one.
HandleChainResponse_adopts(n, event) ==
    /\ pc[n] = "loop"
    /\ event.kind = "gossip"
    /\ Decodes(event.data)
    /\ from_slice(event.data).type = "ChainResponse"
    /\ LET list == from_slice(event.data).list IN
           chain' = [chain EXCEPT ![n] =
                        IF Len(list) > Len(chain[n])
                        THEN [i \in DOMAIN list |-> deserialize(list[i])]
                        ELSE chain[n]]
    /\ inbox' = Transport(n, Consumed(event), {})
    /\ last' = Step(n, "chain_response", EventKind(event), <<>>, FALSE, <<>>, "none")
    /\ UNCHANGED <<pc, pending, lib>>

\* handle_event, the `_` arm: a ChainResponse is reported as an invalid
\* message and dropped.
HandleChainResponse(n, event) ==
    /\ pc[n] = "loop"
    /\ event.kind = "gossip"
    /\ Decodes(event.data)
    /\ from_slice(event.data).type = "ChainResponse"
    /\ inbox' = Transport(n, Consumed(event), {})
    /\ last' = Step(n, "chain_response", EventKind(event), <<>>, FALSE, <<>>, "none")
    /\ UNCHANGED <<chain, pc, pending, lib>>

\* handle_event on bytes that are no NetworkMessage, and on every event
\* that is no gossipsub message: nothing happens.
HandleIgnored(n, event) ==
    /\ pc[n] = "loop"
    /\ event.kind # "gossip" \/ ~Decodes(event.data)
    /\ inbox' = Transport(n, Consumed(event), {})
    /\ last' = Step(n, "ignored", EventKind(event), <<>>, FALSE, <<>>, "none")
    /\ UNCHANGED <<chain, pc, pending, lib>>

\* handle_event as a whole, on one event.
HandleEvent(n, event, ok) ==
    \/ HandleNewBlock(n, event)
    \/ HandleChainRequest(n, event, ok)
    \/ HandleChainResponse(n, event)
    \/ HandleIgnored(n, event)

\* ------------------------------------------------- what peers may send

\* No message is authenticated: a peer can announce any block.  A block
\* tried against a chain: any timestamp t; a previous hash that is the
\* tip's hash (onTip) or the sentinel; and either no flaw, or a forged
\* hash (a copy of the previous hash), or a wrong height (0 instead of the
\* next index).  A block that is not on the tip is refused whatever else
\* it carries, so Next tries those without a flaw only.
UntrustedBlock(blocks, t, onTip, flaw) ==
    LET p == IF onTip THEN Last(blocks).hash ELSE Sentinel
        h == IF flaw = "hash" THEN p ELSE calculate_hash(t, p)
        k == IF flaw = "height" THEN 0 ELSE Len(blocks)
    IN  Block(t, p, h, k)

\* The announcement of a block, as the swarm hands it to a node.
Announcement(block) == GossipEvent(to_vec(NewBlock(serialize(block))))

\* Payloads of a NewBlock that are no Block: a member is missing, a
\* height is negative.
BadPayloads == {<<1, Sentinel, Sentinel>>, <<1, Sentinel, Sentinel, -1>>}

\* The gossipsub messages that fail to decode: a NewBlock with such a
\* payload, and bytes that are no NetworkMessage.
MalformedEvents ==
    {GossipEvent(to_vec(NewBlock(p))) : p \in BadPayloads}
    \cup {GossipEvent(Garbage)}

\* A chain a peer may hold that is one block ahead of the given one.
Ahead(blocks) ==
    IF blocks = <<>> THEN <<genesis_block(1)>>
    ELSE Append(blocks, new_block(1, Last(blocks).hash, Len(blocks)))

\* The other events: the malformed ones, a ChainRequest, a ChainResponse
\* with no block, with the node's own blocks or with a chain that is one
\* block ahead, and an event that is no gossipsub message.
UntrustedOthers(blocks) ==
    MalformedEvents
    \cup {GossipEvent(to_vec(ChainRequest)),
          GossipEvent(to_vec(ChainResponse(<<>>))),
          GossipEvent(to_vec(ChainResponse(serialized_blocks(blocks)))),
          GossipEvent(to_vec(ChainResponse(serialized_blocks(Ahead(blocks))))),
          OtherEvent}

\* What the swarm may hand to node n while the node polls it: what other
\* nodes published, and the other events above.
Polling(n) == pc[n] \in {"discovery", "loop"}

EventsFor(n) ==
    IF Polling(n)
    THEN {GossipEvent(d) : d \in inbox[n]} \cup UntrustedOthers(chain[n])
    ELSE {}

Next ==
    \E n \in Nodes :
        \/ \E event \in EventsFor(n) : HandleMdns(n, event)
        \/ \E connected, ok \in BOOLEAN : DiscoveryTimeout(n, connected, ok)
        \/ \E now \in Times, connected, ok \in BOOLEAN :
               AddBlockAnnounce(n, now, connected, ok)
        \/ AddBlockCommit(n)
        \/ OtherCommand(n)
        \/ \E event \in EventsFor(n) : HandleNewBlock(n, event)
        \/ \E t \in Times, onTip \in BOOLEAN,
              flaw \in {"none", "hash", "height"} :
               /\ Polling(n)
               /\ onTip \/ flaw = "none"
               /\ HandleNewBlock(n, Announcement(
                      UntrustedBlock(chain[n], t, onTip, flaw)))
        \/ \E i \in DOMAIN chain[n] :
               HandleNewBlock(n, Announcement(chain[n][i]))
        \/ \E event \in EventsFor(n), ok \in BOOLEAN :
               HandleChainRequest(n, event, ok)
        \/ \E event \in EventsFor(n) : HandleChainResponse(n, event)
        \/ \E event \in EventsFor(n) : HandleIgnored(n, event)

Spec == Init /\ [][Next]_vars

\* main lines 48-54: tokio's timeout expires sync_timeout (10 s) after the
\* window opened, whatever handle_mdns is doing, so the end of the window
\* is not postponed for ever.
WindowExpires(n) == \E connected, ok \in BOOLEAN : DiscoveryTimeout(n, connected, ok)

SpecTimed == Init /\ [][Next]_vars /\ \A n \in Nodes : WF_vars(WindowExpires(n))

\* ---------------------------------------------- two nodes on one network
\* The same program runs on a second machine of the local network: n2 is
\* started while n1 runs.  The nodes get only what the other published,
\* every publication succeeds, and together the nodes hold at most
\* MaxNetBlocks blocks.

\* main lines 39-52 in a process that starts: the swarm is set up and the
\* chain is created by Blockchain::new(), whoever is on the network.
StartNode(n, now) ==
    /\ pc[n] = "off"
    /\ chain' = [chain EXCEPT ![n] = new(now)]
    /\ pc' = [pc EXCEPT ![n] = "discovery"]
    /\ last' = Step(n, "new", "none", <<>>, FALSE, <<>>, "none")
    /\ UNCHANGED <<pending, inbox, lib>>

\* broadcast_message line 166: mDNS knows a node when another one runs.
Discovered(n) == \E m \in Nodes \ {n} : pc[m] \in Running

\* The blocks of all chains, and those about to be added.
RECURSIVE SumOver(_, _)
SumOver(f, S) ==
    IF S = {} THEN 0
    ELSE LET x == CHOOSE y \in S : TRUE IN f[x] + SumOver(f, S \ {x})

NetBlocks ==
    SumOver([n \in Nodes |-> Len(chain[n]) + Len(pending[n])], Nodes)

\* The gossipsub messages the swarm of n holds for it.
Delivered(n) ==
    IF Polling(n) THEN {GossipEvent(d) : d \in inbox[n]} ELSE {}

NetNext ==
    \E n \in Nodes :
        \/ \E now \in Times : StartNode(n, now)
        \/ \E event \in Delivered(n) : HandleMdns(n, event)
        \/ DiscoveryTimeout(n, Discovered(n), TRUE)
        \/ \E now \in Times :
               /\ NetBlocks < MaxNetBlocks
               /\ AddBlockAnnounce(n, now, Discovered(n), TRUE)
        \/ AddBlockCommit(n)
        \/ \E event \in Delivered(n) : HandleNewBlock(n, event)
        \/ \E event \in Delivered(n) : HandleChainRequest(n, event, TRUE)
        \/ \E event \in Delivered(n) : HandleChainResponse(n, event)

SpecNet == Init /\ [][NetNext]_vars

\* ------------------------------------- the caller of the Blockchain API
\* src/example.rs: a chain is built and written to a file; blocks are read
\* back from a file and given to Blockchain::from_blocks, and is_valid is
\* asked of the instance.  The file read is the one written, or any other.
\*   lib.st       "idle"; "chain": lib.blocks is the instance being built;
\*                "input": lib.data is the Vec<Block> read;
\*                "built": from_blocks returned the instance lib.blocks;
\*                "checked": is_valid returned lib.valid; "panicked"
\*   lib.touched  the index (from 1) of the block of a valid chain that was
\*                changed in the file, 0 if none was
\*   lib.saved    the blocks of the instance the file was written from,
\*                <<>> if it was written by no instance

\* The three invariants of a chain: linkage, hash integrity, heights.
Linked(blocks) ==
    \A i \in 2..Len(blocks) : blocks[i].prev_block_hash = blocks[i - 1].hash

HashesRight(blocks) ==
    \A i \in DOMAIN blocks :
        blocks[i].hash =
            calculate_hash(blocks[i].timestamp, blocks[i].prev_block_hash)

HeightsRight(blocks) == \A i \in DOMAIN blocks : blocks[i].height = i - 1

\* The blocks a file may hold after the blocks s: any timestamp; the
\* previous hash right (the sentinel first, then the hash before) or not;
\* the hash right or a copy of the previous hash; the height right or one
\* too large.
FileBlocks(s) ==
    LET right == IF s = <<>> THEN Sentinel ELSE Last(s).hash
        wrong == IF s = <<>> THEN calculate_hash(1, Sentinel) ELSE Sentinel
    IN  UNION {{Block(t, p, h, k) : h \in {calculate_hash(t, p), p},
                                    k \in {Len(s), Len(s) + 1}}
               : <<t, p>> \in Times \X {right, wrong}}

RECURSIVE FilesOfLen(_)
FilesOfLen(k) ==
    IF k = 0 THEN {<<>>}
    ELSE UNION {{Append(s, b) : b \in FileBlocks(s)} : s \in FilesOfLen(k - 1)}

\* The files of up to max blocks.
Files(max) == UNION {FilesOfLen(k) : k \in 0..max}

\* example.rs line 10: the instance has been created by Blockchain::new();
\* or lines 36-37: the blocks have been read from a file found on disk.
LibInit ==
    /\ chain = [n \in Nodes |-> <<>>]
    /\ pc = [n \in Nodes |-> "off"]
    /\ pending = [n \in Nodes |-> <<>>]
    /\ inbox = [n \in Nodes |-> {}]
    /\ last = Step("n1", "none", "none", <<>>, FALSE, <<>>, "none")
    /\ \/ \E now \in Times :
              lib = [LibIdle EXCEPT !.st = "chain", !.blocks = new(now)]
       \/ \E data \in Files(MaxData) :
              lib = [LibIdle EXCEPT !.st = "input", !.data = data]

\* example.rs lines 16-20: a block is created on the tip, with the index
\* of the loop as its height, and added.
LibAddBlock(now) ==
    /\ lib.st = "chain"
    /\ Len(lib.blocks) < MaxLen
    /\ LET prev_hash == get_last_block(lib.blocks)[1].hash
           block == new_block(now, prev_hash, Len(lib.blocks))
       IN  lib' = [lib EXCEPT !.blocks = add_block(lib.blocks, block).blocks]
    /\ UNCHANGED <<chain, pc, pending, inbox, last>>

\* example.rs lines 29-37: the blocks of the instance are written to the
\* file as JSON and read back block by block.
LibSave ==
    /\ lib.st = "chain"
    /\ lib' = [lib EXCEPT !.st = "input",
                          !.data = [i \in DOMAIN lib.blocks |->
                                       deserialize(serialize(lib.blocks[i]))],
                          !.saved = lib.blocks,
                          !.blocks = <<>>]
    /\ UNCHANGED <<chain, pc, pending, inbox, last>>

\* Between example.rs line 31 (the file is written) and line 36 (it is
\* read): the timestamp of one block of a valid chain is changed in the
\* file, its hash is not.
TamperTimestamp(i, t) ==
    /\ lib.st = "input" /\ lib.touched = 0
    /\ Linked(lib.data) /\ HashesRight(lib.data) /\ HeightsRight(lib.data)
    /\ i \in DOMAIN lib.data
    /\ t # lib.data[i].timestamp
    /\ lib' = [lib EXCEPT !.data[i].timestamp = t, !.touched = i]
    /\ UNCHANGED <<chain, pc, pending, inbox, last>>

\* The same for the previous hash of one block.
TamperPrevHash(i, p) ==
    /\ lib.st = "input" /\ lib.touched = 0
    /\ Linked(lib.data) /\ HashesRight(lib.data) /\ HeightsRight(lib.data)
    /\ i \in DOMAIN lib.data
    /\ p # lib.data[i].prev_block_hash
    /\ lib' = [lib EXCEPT !.data[i].prev_block_hash = p, !.touched = i]
    /\ UNCHANGED <<chain, pc, pending, inbox, last>>

\* example.rs line 38: Blockchain::from_blocks(loaded_blocks)
FromBlocks ==
    /\ lib.st = "input"
    /\ LET r == from_blocks(lib.data) IN
           lib' = [lib EXCEPT !.st = IF r.panicked THEN "panicked" ELSE "built",
                              !.blocks = r.blocks]
    /\ UNCHANGED <<chain, pc, pending, inbox, last>>

\* example.rs line 41: loaded_blockchain.is_valid()
IsValid ==
    /\ lib.st = "built"
    /\ lib' = [lib EXCEPT !.st = "checked", !.valid = is_valid(lib.blocks)]
    /\ UNCHANGED <<chain, pc, pending, inbox, last>>

LibNext ==
    \/ \E now \in Times : LibAddBlock(now)
    \/ LibSave
    \/ \E i \in 1..MaxLen, t \in 1..(MaxTime + 1) : TamperTimestamp(i, t)
    \/ \E i \in 1..MaxLen, p \in {Sentinel, calculate_hash(1, Sentinel)} :
           TamperPrevHash(i, p)
    \/ FromBlocks
    \/ IsValid

SpecLib == LibInit /\ [][LibNext]_vars

\* ============================================================ the claims

\* C1 (under Spec).  add_block(b) on a non-empty chain accepts b if and
\* only if b.prev_block_hash is the tip's hash.  Accepted: it returns true,
\* the chain is the old chain with b appended, so the new tip is b and its
\* previous hash is the old tip's hash.  Otherwise it returns false and
\* the chain is as before.
C1_AddBlockAcceptsIffExtendsTip ==
    [][\A n \in Nodes :
          (last'.node = n /\ last'.arg # <<>> /\ chain[n] # <<>>) =>
              LET b == last'.arg[1] IN
              IF b.prev_block_hash = Last(chain[n]).hash
              THEN /\ last'.ret
                   /\ Len(chain'[n]) = Len(chain[n]) + 1
                   /\ SubSeq(chain'[n], 1, Len(chain[n])) = chain[n]
                   /\ Last(chain'[n]) = b
                   /\ Last(chain'[n]).prev_block_hash = Last(chain[n]).hash
              ELSE /\ ~last'.ret
                   /\ chain'[n] = chain[n]]_vars

\* C1, witness: a block whose previous hash is stale (the genesis block's
\* hash) was just refused by a chain of two blocks, which still has two.
C1_Witness ==
    /\ last.op = "new_block" /\ last.arg # <<>> /\ ~last.ret
    /\ Len(chain["n1"]) = 2
    /\ last.arg[1].prev_block_hash = chain["n1"][1].hash

\* C2 (under Spec), as claimed: a block that add_block accepted has the
\* hash that calculate_hash gives for its timestamp and previous hash; a
\* block with another hash is refused.
C2_ForgedHashRejected ==
    (last.arg # <<>> /\ last.ret) =>
        last.arg[1].hash =
            calculate_hash(last.arg[1].timestamp, last.arg[1].prev_block_hash)

\* C3 (under SpecLib), as claimed: from_blocks on a sequence that is_valid
\* refuses ends in an error the caller can handle: no instance and no
\* panic.
C3_InvalidSequenceIsRecoverable ==
    (lib.st \in {"built", "checked", "panicked"} /\ ~is_valid(lib.data)) =>
        (lib.st # "panicked" /\ lib.blocks = <<>>)

\* C3 (under SpecLib), amended: from_blocks on a sequence that is_valid
\* refuses panics and the caller has no instance; an instance that
\* from_blocks returns holds the sequence as it was given.
C3_InvalidSequencePanics ==
    /\ (lib.st \in {"built", "checked", "panicked"} /\ ~is_valid(lib.data)) =>
           (lib.st = "panicked" /\ lib.blocks = <<>>)
    /\ lib.st \in {"built", "checked"} => lib.blocks = lib.data

\* C3, witness: from_blocks has panicked on a sequence of two blocks.
C3_Witness ==
    lib.st = "panicked" /\ Len(lib.data) = 2 /\ ~is_valid(lib.data)

\* C4 (under SpecLib), as claimed: once the timestamp or the previous hash
\* of any block of a valid chain was changed without recomputing its hash,
\* is_valid is false of the chain, so from_blocks never returns it.
C4_TamperDetected ==
    (lib.touched # 0 /\ lib.st \in {"built", "checked", "panicked"}) =>
        lib.st = "panicked"

\* C5 (under SpecLib), as claimed: is_valid returns true only of blocks
\* that are linked, carry the right hashes (the first one included) and
\* carry their indices as heights.
C5_IsValidChecksAllInvariants ==
    (lib.st = "checked" /\ lib.valid) =>
        (Linked(lib.blocks) /\ HashesRight(lib.blocks)
         /\ HeightsRight(lib.blocks))

\* C6 (under Spec), as claimed: a NewBlock that carries a block the chain
\* already holds is refused; so a block accepted from a NewBlock is not
\* found earlier in the chain.
C6_DuplicateDeliveryRejected ==
    \A n \in Nodes :
        (last.node = n /\ last.op = "new_block" /\ last.arg # <<>>
         /\ last.ret) =>
            \A i \in 1..(Len(chain[n]) - 1) : chain[n][i] # last.arg[1]

\* C7 (under Spec).  Chain linkage: in every reachable state every block
\* after the first names the hash of the block before it.
C7_ChainLinkage == \A n \in Nodes : Linked(chain[n])

\* C7, witness: a chain of three blocks with the right heights so far, the
\* last one just taken from a NewBlock of a peer.
C7_Witness ==
    /\ Len(chain["n1"]) = 3
    /\ last.op = "new_block" /\ last.ret
    /\ chain["n1"][2].height = 1
    /\ chain["n1"][3].timestamp # chain["n1"][2].timestamp

\* C8 (under Spec), as claimed.  Hash integrity: in every reachable state
\* every block's hash is calculate_hash of its timestamp and previous hash.
C8_HashIntegrity == \A n \in Nodes : HashesRight(chain[n])

\* C9 (under Spec), as claimed.  Heights: in every reachable state the
\* block at index i has height i.
C9_HeightMonotonic == \A n \in Nodes : HeightsRight(chain[n])

\* C10 (under Spec), as claimed: when the bytes of a NewBlock have just
\* been handed to gossipsub.publish by an Add Block command, the block
\* they announce is the tip of the announcing node's chain.
C10_AnnouncedAfterCommit ==
    \A n \in Nodes :
        (last.node = n /\ last.op = "announce" /\ last.handed # <<>>) =>
            /\ Decodes(last.handed[1])
            /\ from_slice(last.handed[1]).type = "NewBlock"
            /\ Last(chain[n]) = deserialize(from_slice(last.handed[1]).payload)

\* C11 (under SpecNet), as claimed: a node that joined while a peer holds
\* a chain is of that peer's lineage.  n1 is there first; when n2 has just
\* taken the ChainResponse that answers its ChainRequest, the block at
\* index 0 of its chain is the genesis block of n1.
C11_JoinsPeerLineage ==
    (/\ last.node = "n2" /\ last.op = "chain_response"
     /\ pc["n1"] \in Running) =>
        chain["n2"][1] = chain["n1"][1]

\* C12 (under SpecNet), as claimed, in the form a finite run refutes: when
\* every node is in its loop with no append under way and every published
\* message has been delivered and handled, all nodes hold the same chain
\* (with no further append the state stays as it is for ever).
C12_QuiescentAgreement ==
    (\A n \in Nodes : pc[n] = "loop" /\ inbox[n] = {}) =>
        \A n, m \in Nodes : chain[n] = chain[m]

\* C13 (under Spec).  A step that handles a ChainRequest hands exactly one
\* message to gossipsub.publish: a ChainResponse whose list is as long as
\* the chain and whose i-th element is the serialization of the i-th
\* block; the chain is left as it was.
C13_ChainResponseMirrorsChain ==
    [][\A n \in Nodes :
          (last'.node = n /\ last'.op = "chain_request") =>
              /\ last'.got = "ChainRequest"
              /\ Len(last'.handed) = 1
              /\ Decodes(last'.handed[1])
              /\ LET msg == from_slice(last'.handed[1]) IN
                     /\ msg.type = "ChainResponse"
                     /\ Len(msg.list) = Len(chain[n])
                     /\ \A i \in DOMAIN chain[n] :
                            /\ msg.list[i] = serialize(chain[n][i])
                            /\ deserialize(msg.list[i]) = chain[n][i]
              /\ chain' = chain]_vars

\* C13, witness: a chain of three blocks has been sent in answer to a
\* ChainRequest, and published.
C13_Witness ==
    /\ last.op = "chain_request" /\ last.pub = "ok"
    /\ Len(chain[last.node]) = 3
    /\ Len(from_slice(last.handed[1]).list) = 3

\* C14 (under Spec), as claimed: a publication that fails, or that is
\* skipped because no peer is known, is never fatal: the node that tried
\* it goes on running.
C14_TransportFailureNotFatal ==
    last.pub \in {"err", "no_peers"} => pc[last.node] \in Running

\* C15 (under Spec).  When handle_event is given bytes that are no
\* NetworkMessage, or a NewBlock whose payload is no Block, the step
\* leaves every chain as it was, gives no block to add_block, hands
\* nothing to gossipsub.publish, puts nothing in a peer's inbox and
\* leaves the node in its loop, where it takes the next event.
C15_DecodeFailureDropped ==
    [][\A n \in Nodes, event \in MalformedEvents, ok \in BOOLEAN :
          HandleEvent(n, event, ok) =>
              /\ chain' = chain
              /\ pending' = pending
              /\ pc' = pc /\ pc'[n] = "loop"
              /\ last'.arg = <<>>
              /\ last'.handed = <<>> /\ last'.pub = "none"
              /\ \A m \in Nodes \ {n} : inbox'[m] = inbox[m]]_vars

\* C15, witness: a node whose chain has two blocks has just dropped a
\* NewBlock whose payload is no Block, and is in its loop.
C15_Witness ==
    /\ last.op = "new_block" /\ last.got = "NewBlock" /\ last.arg = <<>>
    /\ Len(chain[last.node]) = 2
    /\ pc[last.node] = "loop"

\* C16 (under SpecLib).  Round trip: a chain made by new() and add_block
\* of blocks created on its tip, written out and read back untouched, is
\* read as the same blocks (deserialize(serialize(b)) = b for each of
\* them); from_blocks takes them without panicking, the instance it
\* returns holds the same blocks, member by member, and is_valid is true
\* of it.
C16_RoundTrip ==
    (lib.saved # <<>> /\ lib.touched = 0) =>
        /\ lib.st # "panicked"
        /\ \A i \in DOMAIN lib.saved :
               deserialize(serialize(lib.saved[i])) = lib.saved[i]
        /\ lib.data = lib.saved
        /\ lib.st \in {"built", "checked"} =>
               /\ Len(lib.blocks) = Len(lib.saved)
               /\ \A i \in DOMAIN lib.saved :
                      /\ lib.blocks[i].timestamp = lib.saved[i].timestamp
                      /\ lib.blocks[i].prev_block_hash =
                             lib.saved[i].prev_block_hash
                      /\ lib.blocks[i].hash = lib.saved[i].hash
                      /\ lib.blocks[i].height = lib.saved[i].height
        /\ lib.st = "checked" => lib.valid

\* C16, witness: a chain of three blocks was written, read back, taken by
\* from_blocks, and is_valid has answered.
C16_Witness ==
    /\ lib.st = "checked" /\ lib.touched = 0
    /\ Len(lib.saved) = 3 /\ Len(lib.blocks) = 3
    /\ lib.saved[3].prev_block_hash = lib.saved[2].hash

\* C17 (under SpecNet), as claimed: the genesis blocks that two nodes made
\* independently, each by its own call of genesis_block, have different
\* hashes.
C17_GenesisHashesDiffer ==
    (chain["n1"] # <<>> /\ chain["n2"] # <<>>) =>
        chain["n1"][1].hash # chain["n2"][1].hash

\* C17 (under SpecNet), amended: two genesis blocks made at different
\* readings of the clock have different hashes, and a chain whose tip is
\* one of them refuses every block whose previous hash is the hash of the
\* other; two genesis blocks made at the same reading are the same block.
C17_GenesisDifferByClock ==
    [][\A n, m \in Nodes :
          (n # m /\ chain[n] # <<>> /\ chain[m] # <<>>) =>
              IF chain[n][1].timestamp = chain[m][1].timestamp
              THEN chain[n][1] = chain[m][1]
              ELSE /\ chain[n][1].hash # chain[m][1].hash
                   /\ (/\ Len(chain[m]) = 1
                       /\ last'.node = m /\ last'.arg # <<>>
                       /\ last'.arg[1].prev_block_hash = chain[n][1].hash) =>
                          (~last'.ret /\ chain'[m] = chain[m])]_vars

\* C17, witness: n2, whose chain is its own genesis block, has just
\* refused the block that n1 built on a genesis block made at another
\* reading of the clock.
C17_Witness ==
    /\ last.node = "n2" /\ last.op = "new_block"
    /\ last.arg # <<>> /\ ~last.ret
    /\ Len(chain["n2"]) = 1
    /\ last.arg[1].prev_block_hash = chain["n1"][1].hash
    /\ chain["n1"][1].timestamp # chain["n2"][1].timestamp

\* C18 (under SpecLib), as claimed: the instance that from_blocks returns
\* is not empty, and the block at its index 0 is a genesis block: its
\* previous hash is the sentinel and its height is 0.  (from_blocks yields
\* no instance of an empty sequence or of one that starts otherwise.)
C18_IndexZeroIsGenesis ==
    lib.st \in {"built", "checked"} =>
        /\ lib.blocks # <<>>
        /\ lib.blocks[1].prev_block_hash = Sentinel
        /\ lib.blocks[1].height = 0

\* C19 (under Spec).  Block construction: the block that genesis_block made
\* (index 0 of the chain that new() returned) has height 0 and the
\* sentinel, 64 zeros, as previous hash; the block that new_block(p, h)
\* made for an Add Block command has previous hash p (the tip's hash) and
\* height h (the tip's height plus one); the hash of both is
\* calculate_hash of their timestamp and previous hash, whatever the
\* height is.
C19_BlockConstruction ==
    \A n \in Nodes :
        /\ chain[n] # <<>> =>
               LET g == chain[n][1] IN
                   /\ g.height = 0
                   /\ g.prev_block_hash = [i \in 1..64 |-> 0]
                   /\ g.timestamp \in Times
                   /\ g.hash = calculate_hash(g.timestamp, g.prev_block_hash)
        /\ pending[n] # <<>> =>
               LET b == pending[n][1]
                   tip == Last(chain[n])
               IN  /\ b.prev_block_hash = tip.hash
                   /\ b.height = tip.height + 1
                   /\ b.timestamp \in Times
                   /\ b.hash = calculate_hash(b.timestamp, b.prev_block_hash)
                   /\ b.hash =
                          new_block(b.timestamp, b.prev_block_hash, 0).hash

\* C19, witness: a block has been made by new_block on a tip that is not
\* the genesis block, at another reading of the clock than the genesis
\* block.
C19_Witness ==
    /\ pending["n1"] # <<>>
    /\ Len(chain["n1"]) = 2
    /\ pending["n1"][1].height = 2
    /\ pending["n1"][1].prev_block_hash = chain["n1"][2].hash
    /\ pending["n1"][1].timestamp # chain["n1"][1].timestamp

\* C20 (under SpecNet), as claimed: no protocol message that the swarm
\* delivers to a started node is taken and discarded without dispatch; so
\* the step of the discovery window, which dispatches nothing, never
\* takes a NewBlock, a ChainRequest or a ChainResponse.
C20_DeliveredIsDispatched ==
    last.op = "handle_mdns" =>
        last.got \notin {"NewBlock", "ChainRequest", "ChainResponse"}

C22_ChainResponseIsNoOp ==
    [][\A n \in Nodes :
          (/\ last'.node = n /\ last'.got = "ChainResponse"
           /\ pc[n] = "loop") =>
              /\ last'.op = "chain_response"
              /\ chain' = chain /\ pending' = pending
              /\ last'.arg = <<>>
              /\ last'.handed = <<>> /\ last'.pub = "none"
              /\ pc' = pc
              /\ \A m \in Nodes \ {n} : inbox'[m] = inbox[m]]_vars

\* C22, witness: a node whose chain has two blocks has just taken a
\* ChainResponse in its loop.
C22_Witness ==
    /\ last.op = "chain_response" /\ last.got = "ChainResponse"
    /\ pc[last.node] = "loop"
    /\ Len(chain[last.node]) = 2

\* C23 (under Spec).  Append-only history: across every step (a command,
\* or an inbound message of any variant and content) the chain of every
\* node before the step is a prefix of its chain after the step, and the
\* chain is longer by one block at most.
C23_AppendOnly ==
    [][\A n \in Nodes :
          /\ Len(chain'[n]) \in {Len(chain[n]), Len(chain[n]) + 1}
          /\ \A i \in DOMAIN chain[n] : chain'[n][i] = chain[n][i]]_vars

\* C23, witness: a chain has grown to three blocks by a local command,
\* after an inbound block was added to it.
C23_Witness ==
    /\ last.op = "commit" /\ last.ret
    /\ Len(chain[last.node]) = 3
    /\ chain[last.node][2].timestamp # chain[last.node][3].timestamp
    /\ chain[last.node][2].hash = chain[last.node][2].prev_block_hash

\* C24 (under Spec).  The chain of a started node is never empty: it has
\* at least one block, the block at index 0 is the genesis block that
\* new() made (by C23 it is never replaced), get_last_block is Some, and
\* the Add Block command does not panic on the tip.
C24_ChainNeverEmpty ==
    \A n \in Nodes :
        pc[n] # "off" =>
            /\ Len(chain[n]) >= 1
            /\ chain[n][1] = genesis_block(chain[n][1].timestamp)
            /\ chain[n][1].timestamp \in Times
            /\ get_last_block(chain[n]) = <<chain[n][Len(chain[n])]>>
            /\ (last.node = n /\ last.op = "announce") =>
                   (pc[n] = "announced" /\ pending[n] # <<>>)

\* C24, witness: an Add Block command has read the tip of a chain to which
\* a forged block had been added, and has built its block on it.
C24_Witness ==
    /\ last.op = "announce" /\ pc[last.node] = "announced"
    /\ Len(chain[last.node]) = 2
    /\ chain[last.node][2].hash = chain[last.node][2].prev_block_hash
    /\ pending[last.node][1].prev_block_hash = chain[last.node][2].hash

\* C25 (under Spec).  An Add Block command always succeeds: the block is
\* built on the tip; between its broadcast and its add_block the node
\* takes no other step, so the tip read is still the tip; add_block
\* returns true, the chain is longer by exactly that block, whose previous
\* hash is the old tip's hash and whose height is the old tip's height
\* plus one; and the node is back in its loop.
C25_LocalAppendSucceeds ==
    [][\A n \in Nodes :
          /\ (last'.node = n /\ last'.op = "announce") =>
                 /\ pc'[n] = "announced"
                 /\ pending'[n][1].prev_block_hash = Last(chain[n]).hash
                 /\ chain'[n] = chain[n]
          /\ (pc[n] = "announced" /\ last'.node = n) =>
                 /\ last'.op = "commit"
                 /\ last'.arg = pending[n]
                 /\ pending[n][1].prev_block_hash = Last(chain[n]).hash
                 /\ last'.ret
                 /\ chain'[n] = Append(chain[n], pending[n][1])
                 /\ Last(chain'[n]).prev_block_hash = Last(chain[n]).hash
                 /\ Last(chain'[n]).height = Last(chain[n]).height + 1
                 /\ pc'[n] = "loop"]_vars

\* C25, witness: an Add Block command has just added its block to a chain
\* whose tip had come from a peer and carried a wrong height.
C25_Witness ==
    /\ last.op = "commit" /\ last.ret
    /\ Len(chain[last.node]) = 3
    /\ chain[last.node][2].height = 0
    /\ chain[last.node][3].height = 1

====
